---- MODULE Spec2Model ----
(***************************************************************************)
(* A model of internal/pkg/workspace/workspace.go: the Workspace type, its *)
(* copilot-directory locator with its cache, the summary file, the         *)
(* conflict-safe writes and the workload enumeration, over an explicit     *)
(* model of the file system the afero calls act on.                        *)
(*                                                                         *)
(* Paths.  The working directory is <<0>>, its k-th ancestor is <<k>>, and *)
(* a path below one of them is that tuple followed by the names on the way *)
(* down: <<2, "copilot", "svc", "manifest.yml">>.  The ancestors always    *)
(* exist; everything below them is a node of fs.  A relative path is       *)
(* resolved against the working directory, which New() takes from          *)
(* os.Getwd().                                                             *)
(***************************************************************************)
EXTENDS Integers, Sequences, FiniteSets, TLC

VARIABLES
    wdBase,      \* filepath.Base(ws.workingDir)
    rootDepth,   \* number of ancestors of ws.workingDir; <<rootDepth>> is "/"
    fs,          \* the file system below the ancestors: path -> node
    copilotDir,  \* ws.copilotDir, NoPath for ""
    call,        \* the most recent step: operation, arguments, error, value
    created,     \* history: the names Create has succeeded with
    deleted,     \* history: DeleteWorkspaceFile has succeeded
    written,     \* history: path -> the bytes of the first successful write to it
    missed,      \* history: a CopilotDirPath call has failed with errWorkspaceNotFound
    tasks        \* the processes or goroutines that run concurrently: id -> state

vars ==
    <<wdBase, rootDepth, fs, copilotDir, call, created, deleted, written, missed, tasks>>

----------------------------------------------------------------------------
(* Program constants, workspace.go:30-45 *)

CopilotDirName == "copilot"
SummaryFileName == ".workspace"
addonsDirName == "addons"
maximumParentDirsToSearch == 5
pipelineFileName == "pipeline.yml"
manifestFileName == "manifest.yml"
buildspecFileName == "buildspec.yml"
ymlFileExtension == ".yml"
dockerfileName == "Dockerfile"

----------------------------------------------------------------------------
(* Bounds and input sets *)

\* The deepest working directory: it has at most MaxDepth ancestors.
MaxDepth == 6

\* Directory names a working directory may have besides "copilot".
OtherBase == "src"

\* Project names given to Create.
AppNames == {"acme", "globex"}

\* Project names of the summary files that exist before the program runs.
ExistingApps == {"acme"}

\* Entity (service or job) names given to the read and write methods.
WorkloadNames == {"api"}

\* Names of the entries an enumerated copilot directory may hold.
EntryNames == {"api", "db", "policy"}

\* Addon base names given to WriteAddon.
AddonNames == {"policy"}

\* "type" values of manifests.
WorkloadTypes == {"Backend Service", "Scheduled Job"}

NoPath == <<>>

Range(seq) == {seq[i] : i \in 1..Len(seq)}

----------------------------------------------------------------------------
(* File contents.  A file's bytes are a tuple: a YAML document with one    *)
(* top-level key is <<key, value>>, the empty document is <<>>, and bytes  *)
(* the YAML decoder rejects are <<"{">>.                                   *)

CorruptBytes == <<"{">>
EmptyBytes == <<>>

\* yaml.Marshal(Summary{Application: appName}), workspace.go:314-318
MarshalSummary(appName) == <<"application", appName>>

\* yaml.Unmarshal into a struct with the single field `key`: the decoder
\* fails on malformed input, ignores unknown keys and leaves the field ""
\* when the key is absent.
Unmarshal(dat, key) ==
    IF dat = CorruptBytes THEN [err |-> "yaml", val |-> ""]
    ELSE IF Len(dat) = 2 /\ dat[1] = key THEN [err |-> "nil", val |-> dat[2]]
    ELSE [err |-> "nil", val |-> ""]

\* name + ymlFileExtension, workspace.go:293
Concat(name, ext) ==
    CASE name = "policy" /\ ext = ".yml" -> "policy.yml"
      [] name = "api" /\ ext = ".yml" -> "api.yml"
      [] name = "db" /\ ext = ".yml" -> "db.yml"
      [] OTHER -> "?"

\* Every name of the model in the order of Go's string comparison, which is
\* the order afero.ReadDir and sort.Strings produce.
NameOrder ==
    << ".workspace", "App", "Dockerfile", "addons", "api", "api.yml", "buildspec.yml",
       "copilot", "db", "db.yml", "manifest.yml", "pipeline.yml", "policy",
       "policy.yml" >>

----------------------------------------------------------------------------
(* Errors *)

Err(kind, path, name) == [kind |-> kind, path |-> path, name |-> name]
Nil == Err("nil", NoPath, "")
Errno(e, path) == Err(e, path, "")
\* fmt.Errorf("...: %w", err): the wrapped error keeps its kind; the
\* message names the operation.
Wrap(msg, e) == [e EXCEPT !.name = msg]

----------------------------------------------------------------------------
(* The file system: os and afero, as the code uses them *)

DirNode == [kind |-> "dir", data |-> EmptyBytes, mode |-> "ok"]
FileNode(data) == [kind |-> "file", data |-> data, mode |-> "ok"]

\* filepath.Join(p, elem)
Join(p, elem) == Append(p, elem)

\* filepath.Dir(p): the parent; the parent of the root is the root.
Dir(p) ==
    IF Len(p) > 1 THEN SubSeq(p, 1, Len(p) - 1)
    ELSE IF p[1] < rootDepth THEN <<p[1] + 1>> ELSE p

IsPrefix(q, p) == Len(q) <= Len(p) /\ SubSeq(p, 1, Len(q)) = q

\* The error of walking to the directory that holds p, "nil" if there is
\* none: a missing component (ENOENT), a component that is a file (ENOTDIR)
\* or a directory without search permission (EACCES).
RECURSIVE WalkErr(_, _, _)
WalkErr(f, p, i) ==
    IF i >= Len(p) THEN "nil"
    ELSE LET q == SubSeq(p, 1, i) IN
         IF q \notin DOMAIN f THEN "ENOENT"
         ELSE IF f[q].kind # "dir" THEN "ENOTDIR"
         ELSE IF f[q].mode # "ok" THEN "EACCES"
         ELSE WalkErr(f, p, i + 1)

\* os.Stat(p)
Stat(f, p) ==
    LET w == WalkErr(f, p, 2) IN
    IF w # "nil" THEN w
    ELSE IF Len(p) > 1 /\ p \notin DOMAIN f THEN "ENOENT"
    ELSE "nil"

IsDirAt(f, p) == Len(p) = 1 \/ (p \in DOMAIN f /\ f[p].kind = "dir")

\* afero.Exists: os.IsNotExist(err) is "absent", any other error is returned.
Exists(f, p) ==
    LET e == Stat(f, p) IN
    IF e = "nil" THEN [ok |-> TRUE, err |-> Nil]
    ELSE IF e = "ENOENT" THEN [ok |-> FALSE, err |-> Nil]
    ELSE [ok |-> FALSE, err |-> Errno(e, p)]

\* afero.DirExists
DirExists(f, p) ==
    LET e == Stat(f, p) IN
    IF e = "nil" THEN [ok |-> IsDirAt(f, p), err |-> Nil]
    ELSE IF e = "ENOENT" THEN [ok |-> FALSE, err |-> Nil]
    ELSE [ok |-> FALSE, err |-> Errno(e, p)]

\* afero.ReadFile
ReadFile(f, p) ==
    LET e == Stat(f, p) IN
    IF e # "nil" THEN [data |-> EmptyBytes, err |-> Errno(e, p)]
    ELSE IF IsDirAt(f, p) THEN [data |-> EmptyBytes, err |-> Errno("EISDIR", p)]
    ELSE IF f[p].mode # "ok" THEN [data |-> EmptyBytes, err |-> Errno("EACCES", p)]
    ELSE [data |-> f[p].data, err |-> Nil]

Put(f, p, node) == [q \in DOMAIN f \cup {p} |-> IF q = p THEN node ELSE f[q]]

\* afero.WriteFile: open with O_WRONLY|O_CREATE|O_TRUNC, write, close.
WriteFile(f, p, data) ==
    LET w == WalkErr(f, p, 2) IN
    IF w # "nil" THEN [fs |-> f, err |-> Errno(w, p)]
    ELSE IF IsDirAt(f, p) THEN [fs |-> f, err |-> Errno("EISDIR", p)]
    ELSE IF p \in DOMAIN f /\ f[p].mode # "ok" THEN [fs |-> f, err |-> Errno("EACCES", p)]
    ELSE [fs |-> Put(f, p, FileNode(data)), err |-> Nil]

\* os.Mkdir
Mkdir(f, p) ==
    LET w == WalkErr(f, p, 2) IN
    IF w # "nil" THEN [fs |-> f, err |-> Errno(w, p)]
    ELSE IF Len(p) = 1 \/ p \in DOMAIN f THEN [fs |-> f, err |-> Errno("EEXIST", p)]
    ELSE [fs |-> Put(f, p, DirNode), err |-> Nil]

\* os.MkdirAll: every missing directory on the way to p, then p.
RECURSIVE MkdirAll(_, _)
MkdirAll(f, p) ==
    IF Len(p) = 1 THEN [fs |-> f, err |-> Nil]
    ELSE LET e == Stat(f, p) IN
         IF e = "nil"
         THEN IF IsDirAt(f, p) THEN [fs |-> f, err |-> Nil]
              ELSE [fs |-> f, err |-> Errno("ENOTDIR", p)]
         ELSE LET up == MkdirAll(f, Dir(p)) IN
              IF up.err # Nil THEN up ELSE Mkdir(up.fs, p)

Children(f, p) == {q \in DOMAIN f : Len(q) = Len(p) + 1 /\ IsPrefix(p, q)}

\* os.Remove: a file, or an empty directory.
Remove(f, p) ==
    LET e == Stat(f, p) IN
    IF e # "nil" THEN [fs |-> f, err |-> Errno(e, p)]
    ELSE IF Len(p) = 1 \/ Children(f, p) # {} THEN [fs |-> f, err |-> Errno("ENOTEMPTY", p)]
    ELSE [fs |-> [q \in DOMAIN f \ {p} |-> f[q]], err |-> Nil]

\* afero.ReadDir: the entries of p sorted by name.
ReadDir(f, p) ==
    LET e == Stat(f, p) IN
    IF e # "nil" THEN [names |-> <<>>, err |-> Errno(e, p)]
    ELSE IF ~IsDirAt(f, p) THEN [names |-> <<>>, err |-> Errno("ENOTDIR", p)]
    ELSE IF Len(p) > 1 /\ f[p].mode # "ok" THEN [names |-> <<>>, err |-> Errno("EACCES", p)]
    ELSE [names |-> SelectSeq(NameOrder, LAMBDA n : Join(p, n) \in DOMAIN f),
          err |-> Nil]

----------------------------------------------------------------------------
(* The locator *)

workingDir == <<0>>

Found(path) == [dir |-> path, val |-> path, err |-> Nil]

\* The loop with `try <= maximumParentDirsToSearch`: one ancestor more.
RECURSIVE searchOneMore(_, _, _)
searchOneMore(f, searchingDir, try) ==
    IF try > maximumParentDirsToSearch
    THEN [dir |-> NoPath, val |-> NoPath,
          err |-> Err("errWorkspaceNotFound", workingDir, CopilotDirName)]
    ELSE LET currentDirectoryPath == Join(searchingDir, CopilotDirName)
             inCurrentDirPath == DirExists(f, currentDirectoryPath) IN
         IF inCurrentDirPath.err # Nil
         THEN [dir |-> NoPath, val |-> NoPath, err |-> inCurrentDirPath.err]
         ELSE IF inCurrentDirPath.ok THEN Found(currentDirectoryPath)
         ELSE searchOneMore(f, Dir(searchingDir), try + 1)

\* The loop that keeps the copilot directory found last, the one
\* furthest up.
RECURSIVE searchFurthest(_, _, _)
searchFurthest(f, searchingDir, try) ==
    IF try >= maximumParentDirsToSearch
    THEN [dir |-> NoPath, val |-> NoPath,
          err |-> Err("errWorkspaceNotFound", workingDir, CopilotDirName)]
    ELSE LET currentDirectoryPath == Join(searchingDir, CopilotDirName)
             inCurrentDirPath == DirExists(f, currentDirectoryPath)
             above == searchFurthest(f, Dir(searchingDir), try + 1) IN
         IF above.err = Nil THEN above
         ELSE IF inCurrentDirPath.ok THEN Found(currentDirectoryPath)
         ELSE above

\* workspace.go:365-382, the loop and the error after it
RECURSIVE searchParents(_, _, _)
searchParents(f, searchingDir, try) ==
    IF try >= maximumParentDirsToSearch
    THEN [dir |-> NoPath, val |-> NoPath,
          err |-> Err("errWorkspaceNotFound", workingDir, CopilotDirName)]
    ELSE LET currentDirectoryPath == Join(searchingDir, CopilotDirName)
             inCurrentDirPath == DirExists(f, currentDirectoryPath) IN
         IF inCurrentDirPath.err # Nil
         THEN [dir |-> NoPath, val |-> NoPath, err |-> inCurrentDirPath.err]
         ELSE IF inCurrentDirPath.ok THEN Found(currentDirectoryPath)
         ELSE searchParents(f, Dir(searchingDir), try + 1)

\* CopilotDirPath without the cache test of lines 355-357.
CopilotDirPathSearchesAgain(f, c) ==
    IF wdBase = CopilotDirName THEN Found(workingDir)
    ELSE searchParents(f, workingDir, 0)

\* CopilotDirPath that remembers a failed search in the cache, as a value
\* that is no path, and fails from then on.
CopilotDirPathMemoizesFailure(f, c) ==
    LET notFound == Err("errWorkspaceNotFound", workingDir, CopilotDirName)
        failed == <<-1, "not found">> IN
    IF c = failed THEN [dir |-> failed, val |-> NoPath, err |-> notFound]
    ELSE IF c # NoPath THEN Found(c)
    ELSE IF wdBase = CopilotDirName THEN Found(workingDir)
    ELSE LET r == searchParents(f, workingDir, 0) IN
         IF r.err # Nil THEN [r EXCEPT !.dir = failed] ELSE r

\* CopilotDirPath that takes copilot in the working directory when the
\* search finds none.
CopilotDirPathDefaults(f, c) ==
    IF c # NoPath THEN Found(c)
    ELSE IF wdBase = CopilotDirName THEN Found(workingDir)
    ELSE LET r == searchParents(f, workingDir, 0) IN
         IF r.err # Nil THEN Found(Join(workingDir, CopilotDirName)) ELSE r

\* Workspace.CopilotDirPath: dir is ws.copilotDir after the call.
CopilotDirPath(f, c) ==
    IF c # NoPath THEN Found(c)
    ELSE IF wdBase = CopilotDirName THEN Found(workingDir)
    ELSE searchParents(f, workingDir, 0)

----------------------------------------------------------------------------
(* The summary file *)

Out(f, c, err, val) == [fs |-> f, dir |-> c, err |-> err, val |-> val]

\* Workspace.summaryPath
summaryPath(f, c) ==
    LET copilotPath == CopilotDirPath(f, c) IN
    IF copilotPath.err # Nil THEN Out(f, copilotPath.dir, copilotPath.err, NoPath)
    ELSE Out(f, copilotPath.dir, Nil, Join(copilotPath.val, SummaryFileName))

\* Summary that returns the error of the existence check of line 110.
SummaryReturnsExistsError(f, c) ==
    LET sp == summaryPath(f, c) IN
    IF sp.err # Nil THEN Out(f, sp.dir, sp.err, <<>>)
    ELSE LET exist == Exists(f, sp.val) IN
         IF exist.err # Nil THEN Out(f, sp.dir, exist.err, <<>>)
         ELSE IF exist.ok
         THEN LET value == ReadFile(f, sp.val) IN
              IF value.err # Nil THEN Out(f, sp.dir, value.err, <<>>)
              ELSE LET wsSummary == Unmarshal(value.data, "application") IN
                   Out(f, sp.dir, Errno(wsSummary.err, NoPath), <<wsSummary.val>>)
         ELSE Out(f, sp.dir, Err("errNoAssociatedApplication", NoPath, ""), <<>>)

\* Workspace.Summary: val is <<Application>> of the summary returned.
Summary(f, c) ==
    LET sp == summaryPath(f, c) IN
    IF sp.err # Nil THEN Out(f, sp.dir, sp.err, <<>>)
    ELSE LET summaryFileExists == Exists(f, sp.val).ok IN
         IF summaryFileExists
         THEN LET value == ReadFile(f, sp.val) IN
              IF value.err # Nil THEN Out(f, sp.dir, value.err, <<>>)
              ELSE LET wsSummary == Unmarshal(value.data, "application") IN
                   Out(f, sp.dir, Errno(wsSummary.err, NoPath), <<wsSummary.val>>)
         ELSE Out(f, sp.dir, Err("errNoAssociatedApplication", NoPath, ""), <<>>)

\* Workspace.writeSummary
writeSummary(f, c, appName) ==
    LET sp == summaryPath(f, c) IN
    IF sp.err # Nil THEN Out(f, sp.dir, sp.err, <<>>)
    ELSE LET w == WriteFile(f, sp.val, MarshalSummary(appName)) IN
         Out(w.fs, sp.dir, w.err, <<>>)

\* createCopilotDir without the test of lines 346-349: Mkdir always.
createCopilotDirAlways(f, c) ==
    LET m == Mkdir(f, Join(workingDir, CopilotDirName)) IN
    Out(m.fs, c, m.err, <<>>)

\* Workspace.createCopilotDir: the error of CopilotDirPath is dropped, and
\* "copilot" is a path relative to the working directory.
createCopilotDir(f, c) ==
    LET existingWorkspace == CopilotDirPath(f, c) IN
    IF existingWorkspace.val # NoPath THEN Out(f, existingWorkspace.dir, Nil, <<>>)
    ELSE LET m == Mkdir(f, Join(workingDir, CopilotDirName)) IN
         Out(m.fs, existingWorkspace.dir, m.err, <<>>)

\* Create without the comparison of line 88: any summary that decodes is
\* taken for the caller's.
createIgnoresName(mk, summary, appName) ==
    IF summary.err = Nil THEN Out(mk.fs, summary.dir, Nil, <<>>)
    ELSE IF summary.err.kind = "errNoAssociatedApplication"
         THEN writeSummary(mk.fs, summary.dir, appName)
         ELSE Out(mk.fs, summary.dir, summary.err, <<>>)

\* Create that takes every existing summary for another project's.
createRejectsOwn(mk, summary, appName) ==
    IF summary.err = Nil
    THEN Out(mk.fs, summary.dir,
             Err("errHasExistingApplication", NoPath, summary.val[1]), <<>>)
    ELSE IF summary.err.kind = "errNoAssociatedApplication"
         THEN writeSummary(mk.fs, summary.dir, appName)
         ELSE Out(mk.fs, summary.dir, summary.err, <<>>)

\* Create that writes the summary whatever Summary returned.
createAlwaysWrites(mk, summary, appName) ==
    writeSummary(mk.fs, summary.dir, appName)

\* Create that writes the summary whenever Summary returned an error.
createWritesOnAnyError(mk, summary, appName) ==
    IF summary.err = Nil
    THEN IF summary.val[1] # appName
         THEN Out(mk.fs, summary.dir,
                  Err("errHasExistingApplication", NoPath, summary.val[1]), <<>>)
         ELSE Out(mk.fs, summary.dir, Nil, <<>>)
    ELSE writeSummary(mk.fs, summary.dir, appName)

\* Workspace.Create, lines 84-101: what Create does with the summary it
\* read, mk being the outcome of createCopilotDir.
createFromSummary(mk, summary, appName) ==
    IF summary.err = Nil
    THEN IF summary.val[1] # appName
         THEN Out(mk.fs, summary.dir,
                  Err("errHasExistingApplication", NoPath, summary.val[1]), <<>>)
         ELSE Out(mk.fs, summary.dir, Nil, <<>>)
    ELSE IF summary.err.kind = "errNoAssociatedApplication"
         THEN writeSummary(mk.fs, summary.dir, appName)
         ELSE Out(mk.fs, summary.dir, summary.err, <<>>)

\* Workspace.Create, lines 80-85
createAfterDir(mk, appName) ==
    IF mk.err # Nil THEN mk
    ELSE createFromSummary(mk, Summary(mk.fs, mk.dir), appName)

\* Workspace.Create
Create(f, c, appName) == createAfterDir(createCopilotDir(f, c), appName)

\* Workspace.DeleteWorkspaceFile: the path is relative to the working
\* directory, not to the directory CopilotDirPath resolves.
DeleteWorkspaceFile(f, c) ==
    LET r == Remove(f, Join(Join(workingDir, CopilotDirName), SummaryFileName)) IN
    Out(r.fs, c, r.err, <<>>)

----------------------------------------------------------------------------
(* Reading and writing files under the copilot directory *)

RECURSIVE JoinAll(_, _)
JoinAll(p, elem) ==
    IF elem = <<>> THEN p ELSE JoinAll(Join(p, Head(elem)), Tail(elem))

\* write without the existence check of lines 407-413: the file is replaced.
writeOverwrites(f, c, data, elem) ==
    LET copilotPath == CopilotDirPath(f, c) IN
    IF copilotPath.err # Nil THEN Out(f, copilotPath.dir, copilotPath.err, NoPath)
    ELSE LET filename == JoinAll(copilotPath.val, elem)
             mk == MkdirAll(f, Dir(filename)) IN
         IF mk.err # Nil
         THEN Out(mk.fs, copilotPath.dir, Wrap("create directories", mk.err), NoPath)
         ELSE LET w == WriteFile(mk.fs, filename, data) IN
              IF w.err # Nil
              THEN Out(w.fs, copilotPath.dir, Wrap("write manifest file", w.err), NoPath)
              ELSE Out(w.fs, copilotPath.dir, Nil, filename)

\* Workspace.write
write(f, c, data, elem) ==
    LET copilotPath == CopilotDirPath(f, c) IN
    IF copilotPath.err # Nil THEN Out(f, copilotPath.dir, copilotPath.err, NoPath)
    ELSE LET filename == JoinAll(copilotPath.val, elem)
             mk == MkdirAll(f, Dir(filename)) IN
         IF mk.err # Nil
         THEN Out(mk.fs, copilotPath.dir, Wrap("create directories", mk.err), NoPath)
         ELSE LET exist == Exists(mk.fs, filename) IN
              IF exist.err # Nil
              THEN Out(mk.fs, copilotPath.dir, Wrap("check if manifest file exists", exist.err), NoPath)
              ELSE IF exist.ok
              THEN Out(mk.fs, copilotPath.dir, Err("ErrFileExists", filename, ""), NoPath)
              ELSE LET w == WriteFile(mk.fs, filename, data) IN
                   IF w.err # Nil
                   THEN Out(w.fs, copilotPath.dir, Wrap("write manifest file", w.err), NoPath)
                   ELSE Out(w.fs, copilotPath.dir, Nil, filename)

\* Workspace.read
read(f, c, elem) ==
    LET copilotPath == CopilotDirPath(f, c) IN
    IF copilotPath.err # Nil THEN Out(f, copilotPath.dir, copilotPath.err, EmptyBytes)
    ELSE LET r == ReadFile(f, JoinAll(copilotPath.val, elem)) IN
         Out(f, copilotPath.dir, r.err, r.data)

\* Workspace.readWorkloadManifest
readWorkloadManifest(f, c, name) == read(f, c, <<name, manifestFileName>>)

\* A marshaler is what its MarshalBinary returns: bytes, or an error.
Marshaled(data) == [data |-> data, err |-> Nil]
MarshalFails == [data |-> EmptyBytes, err |-> Err("marshal", NoPath, "")]

\* The body shared by the Write* methods: MarshalBinary, then write.
writeMarshaled(f, c, marshaler, elem) ==
    IF marshaler.err # Nil THEN Out(f, c, Wrap("marshal to binary", marshaler.err), NoPath)
    ELSE write(f, c, marshaler.data, elem)

WriteServiceManifest(f, c, marshaler, name) ==
    writeMarshaled(f, c, marshaler, <<name, manifestFileName>>)

WriteJobManifest(f, c, marshaler, name) ==
    writeMarshaled(f, c, marshaler, <<name, manifestFileName>>)

WritePipelineBuildspec(f, c, marshaler) ==
    writeMarshaled(f, c, marshaler, <<buildspecFileName>>)

WritePipelineManifest(f, c, marshaler) ==
    writeMarshaled(f, c, marshaler, <<pipelineFileName>>)

\* WriteAddon without line 293: the file is named by the bare name.
WriteAddonNoExtension(f, c, content, svc, name) ==
    writeMarshaled(f, c, content, <<svc, addonsDirName, name>>)

WriteAddon(f, c, content, svc, name) ==
    LET fname == Concat(name, ymlFileExtension) IN
    writeMarshaled(f, c, content, <<svc, addonsDirName, fname>>)

\* Workspace.ReadServiceManifest and ReadJobManifest differ in the message.
ReadServiceManifest(f, c, name) ==
    LET mf == readWorkloadManifest(f, c, name) IN
    IF mf.err # Nil THEN [mf EXCEPT !.err = Wrap("read service manifest file", mf.err),
                                    !.val = EmptyBytes]
    ELSE mf

ReadJobManifest(f, c, name) ==
    LET mf == readWorkloadManifest(f, c, name) IN
    IF mf.err # Nil THEN [mf EXCEPT !.err = Wrap("read job manifest file", mf.err),
                                    !.val = EmptyBytes]
    ELSE mf

ReadAddon(f, c, svc, fname) == read(f, c, <<svc, addonsDirName, fname>>)

\* Workspace.ReadAddonsDir
ReadAddonsDir(f, c, svcName) ==
    LET copilotPath == CopilotDirPath(f, c) IN
    IF copilotPath.err # Nil THEN Out(f, copilotPath.dir, copilotPath.err, <<>>)
    ELSE LET files == ReadDir(f, JoinAll(copilotPath.val, <<svcName, addonsDirName>>)) IN
         IF files.err # Nil THEN Out(f, copilotPath.dir, files.err, <<>>)
         ELSE Out(f, copilotPath.dir, Nil, files.names)

----------------------------------------------------------------------------
(* Enumerating workloads *)

\* Workspace.readWorkloadType
readWorkloadType(dat) ==
    LET wl == Unmarshal(dat, "type") IN
    [val |-> wl.val, err |-> Errno(wl.err, NoPath)]

\* The loop without the test of line 173: every workload is appended.
RECURSIVE workloadLoopNoMatch(_, _, _, _, _, _)
workloadLoopNoMatch(f, c, copilotPath, files, names, match) ==
    IF files = <<>> THEN Out(f, c, Nil, names)
    ELSE LET name == Head(files) IN
         IF ~IsDirAt(f, Join(copilotPath, name))
         THEN workloadLoopNoMatch(f, c, copilotPath, Tail(files), names, match)
         ELSE IF ~Exists(f, JoinAll(copilotPath, <<name, manifestFileName>>)).ok
         THEN workloadLoopNoMatch(f, c, copilotPath, Tail(files), names, match)
         ELSE LET manifestBytes == readWorkloadManifest(f, c, name) IN
              IF manifestBytes.err # Nil
              THEN Out(f, c, Wrap("read manifest for workload", manifestBytes.err), <<>>)
              ELSE LET wlType == readWorkloadType(manifestBytes.val) IN
                   IF wlType.err # Nil THEN Out(f, c, wlType.err, <<>>)
                   ELSE workloadLoopNoMatch(f, c, copilotPath, Tail(files),
                                            Append(names, name), match)

\* The loop of Workspace.workloadNames over the entries still to visit,
\* with the names collected so far.  match is the set of types the
\* predicate accepts.
RECURSIVE workloadLoop(_, _, _, _, _, _)
workloadLoop(f, c, copilotPath, files, names, match) ==
    IF files = <<>> THEN Out(f, c, Nil, names)
    ELSE LET name == Head(files) IN
         IF ~IsDirAt(f, Join(copilotPath, name))
         THEN workloadLoop(f, c, copilotPath, Tail(files), names, match)
         ELSE IF ~Exists(f, JoinAll(copilotPath, <<name, manifestFileName>>)).ok
         THEN workloadLoop(f, c, copilotPath, Tail(files), names, match)
         ELSE LET manifestBytes == readWorkloadManifest(f, c, name) IN
              IF manifestBytes.err # Nil
              THEN Out(f, c, Wrap("read manifest for workload", manifestBytes.err), <<>>)
              ELSE LET wlType == readWorkloadType(manifestBytes.val) IN
                   IF wlType.err # Nil THEN Out(f, c, wlType.err, <<>>)
                   ELSE workloadLoop(f, c, copilotPath, Tail(files),
                                     IF wlType.val \in match THEN Append(names, name)
                                     ELSE names,
                                     match)

\* Workspace.workloadNames
workloadNames(f, c, match) ==
    LET copilotPath == CopilotDirPath(f, c) IN
    IF copilotPath.err # Nil THEN Out(f, copilotPath.dir, copilotPath.err, <<>>)
    ELSE LET files == ReadDir(f, copilotPath.val) IN
         IF files.err # Nil
         THEN Out(f, copilotPath.dir, Wrap("read directory", files.err), <<>>)
         ELSE workloadLoop(f, copilotPath.dir, copilotPath.val, files.names, <<>>, match)

----------------------------------------------------------------------------
(* Listing Dockerfiles *)

\* The position of a string in the order of Go's string comparison: "."
\* is before every name.
Rank(str) ==
    IF str = "." THEN 0
    ELSE CHOOSE i \in 1..Len(NameOrder) : NameOrder[i] = str

\* The strings left as they were appended.
unsorted(strs) == strs

\* sort.Strings
RECURSIVE SortStrings(_)
SortStrings(strs) ==
    IF strs = <<>> THEN <<>>
    ELSE LET rest == SortStrings(Tail(strs))
             x == Head(strs)
             before == SelectSeq(rest, LAMBDA y : Rank(y) <= Rank(x))
             after == SelectSeq(rest, LAMBDA y : Rank(y) > Rank(x)) IN
         before \o <<x>> \o after

\* filepath.Dir of a bare file name
DirOfName(name) == "."

\* dir + "/" + dockerfileName, lines 471-474
DockerfileIn(dir) == dir \o "/" \o dockerfileName

\* The inner loop of lines 453-462 over the entries of one sub-directory:
\* the sub-directory is appended for an entry Dockerfile that is not a
\* directory.
RECURSIVE subDirLoop(_, _, _, _)
subDirLoop(f, sub, subFiles, directories) ==
    IF subFiles = <<>> THEN directories
    ELSE LET name == Head(subFiles) IN
         IF IsDirAt(f, Join(Join(workingDir, sub), name))
         THEN subDirLoop(f, sub, Tail(subFiles), directories)
         ELSE subDirLoop(f, sub, Tail(subFiles),
                         IF name = dockerfileName THEN Append(directories, sub)
                         ELSE directories)

\* The loop of lines 439-463 over the entries of the working directory.
\* A sub-directory is read by its name, relative to the working directory.
RECURSIVE dockerfileLoop(_, _, _)
dockerfileLoop(f, wdFiles, directories) ==
    IF wdFiles = <<>> THEN [dirs |-> directories, err |-> Nil]
    ELSE LET name == Head(wdFiles) IN
         IF ~IsDirAt(f, Join(workingDir, name))
         THEN dockerfileLoop(f, Tail(wdFiles),
                             IF name = dockerfileName
                             THEN Append(directories, DirOfName(name))
                             ELSE directories)
         ELSE LET subFiles == ReadDir(f, Join(workingDir, name)) IN
              IF subFiles.err # Nil
              THEN [dirs |-> <<>>, err |-> Wrap("read directory", subFiles.err)]
              ELSE dockerfileLoop(f, Tail(wdFiles),
                                  subDirLoop(f, name, subFiles.names, directories))

\* Lines 464-475: the error for no directory, the sort and the rendering.
renderDockerfiles(f, c, found) ==
    IF found.err # Nil THEN Out(f, c, found.err, <<>>)
    ELSE IF Len(found.dirs) = 0
    THEN Out(f, c, Err("ErrDockerfileNotFound", workingDir, ""), <<>>)
    ELSE LET directories == SortStrings(found.dirs) IN
         Out(f, c, Nil, [i \in 1..Len(directories) |-> DockerfileIn(directories[i])])

\* Workspace.ListDockerfiles
ListDockerfiles(f, c) ==
    LET wdFiles == ReadDir(f, workingDir) IN
    IF wdFiles.err # Nil THEN Out(f, c, Wrap("read directory", wdFiles.err), <<>>)
    ELSE renderDockerfiles(f, c, dockerfileLoop(f, wdFiles.names, <<>>))

----------------------------------------------------------------------------
(* Steps.  Each call of a method is one step: the calls are sequential and *)
(* a method returns before the next one starts.                            *)

Called(op, args, r) == [op |-> op, args |-> args, err |-> r.err, val |-> r.val]

Keep == UNCHANGED <<wdBase, rootDepth, tasks>>

WriteOps ==
    {"WriteServiceManifest", "WriteJobManifest", "WritePipelineBuildspec",
     "WritePipelineManifest", "WriteAddon"}

\* A step of a method that is neither Create nor DeleteWorkspaceFile.  A
\* Write* method returns the path it wrote; args[1] is its marshaler.
Step(op, args, r) ==
    /\ fs' = r.fs
    /\ copilotDir' = r.dir
    /\ call' = Called(op, args, r)
    /\ written' = IF op \in WriteOps /\ r.err = Nil /\ r.val \notin DOMAIN written
                  THEN Put(written, r.val, args[1].data)
                  ELSE written
    /\ missed' = (missed \/ (op = "CopilotDirPath" /\ r.err.kind = "errWorkspaceNotFound"))
    /\ UNCHANGED <<created, deleted>>
    /\ Keep

DoCopilotDirPath ==
    LET r == CopilotDirPath(fs, copilotDir) IN
    Step("CopilotDirPath", <<>>, Out(fs, r.dir, r.err, r.val))

DoCreate ==
    \E appName \in AppNames :
        LET r == Create(fs, copilotDir, appName) IN
        /\ fs' = r.fs
        /\ copilotDir' = r.dir
        /\ call' = Called("Create", <<appName>>, r)
        /\ created' = IF r.err = Nil THEN created \cup {appName} ELSE created
        /\ UNCHANGED <<deleted, written, missed>>
        /\ Keep

DoSummary == Step("Summary", <<>>, Summary(fs, copilotDir))

DoDeleteWorkspaceFile ==
    LET r == DeleteWorkspaceFile(fs, copilotDir) IN
    /\ fs' = r.fs
    /\ copilotDir' = r.dir
    /\ call' = Called("DeleteWorkspaceFile", <<>>, r)
    /\ deleted' = (deleted \/ r.err = Nil)
    /\ UNCHANGED <<created, written, missed>>
    /\ Keep

\* Manifest bytes the marshalers of the model produce.
ManifestBytes == {<<"type", t>> : t \in WorkloadTypes}

Marshalers == {Marshaled(d) : d \in ManifestBytes} \cup {MarshalFails}

DoWriteServiceManifest ==
    \E m \in Marshalers, name \in WorkloadNames :
        Step("WriteServiceManifest", <<m, name>>,
             WriteServiceManifest(fs, copilotDir, m, name))

DoWriteJobManifest ==
    \E m \in Marshalers, name \in WorkloadNames :
        Step("WriteJobManifest", <<m, name>>,
             WriteJobManifest(fs, copilotDir, m, name))

DoWritePipelineBuildspec ==
    \E m \in Marshalers :
        Step("WritePipelineBuildspec", <<m>>, WritePipelineBuildspec(fs, copilotDir, m))

DoWritePipelineManifest ==
    \E m \in Marshalers :
        Step("WritePipelineManifest", <<m>>, WritePipelineManifest(fs, copilotDir, m))

DoWriteAddon ==
    \E m \in Marshalers, svc \in WorkloadNames, name \in AddonNames :
        Step("WriteAddon", <<m, svc, name>>, WriteAddon(fs, copilotDir, m, svc, name))

\* Addon contents: a template, an empty one, and a marshaler that fails.
AddonContents ==
    {Marshaled(<<"Resources", "table">>), Marshaled(<<"Resources", "bucket">>),
     Marshaled(EmptyBytes), MarshalFails}

\* Entity names and addon base names of the addon calls.
AddonSvcNames == {"api", "db"}
AddonBaseNames == {"policy", "db"}
AddonFileNames == {"policy.yml", "db.yml", "policy"}

DoWriteAnyAddon ==
    \E m \in AddonContents, svc \in AddonSvcNames, name \in AddonBaseNames :
        Step("WriteAddon", <<m, svc, name>>, WriteAddon(fs, copilotDir, m, svc, name))

DoReadAddon ==
    \E svc \in AddonSvcNames, fname \in AddonFileNames :
        Step("ReadAddon", <<svc, fname>>, ReadAddon(fs, copilotDir, svc, fname))

DoReadAddonsDir ==
    \E svc \in AddonSvcNames :
        Step("ReadAddonsDir", <<svc>>, ReadAddonsDir(fs, copilotDir, svc))

DoReadServiceManifest ==
    \E name \in WorkloadNames :
        Step("ReadServiceManifest", <<name>>, ReadServiceManifest(fs, copilotDir, name))

DoReadJobManifest ==
    \E name \in WorkloadNames :
        Step("ReadJobManifest", <<name>>, ReadJobManifest(fs, copilotDir, name))

DoWorkloadNames ==
    \E match \in SUBSET (WorkloadTypes \cup {""}) :
        Step("workloadNames", <<match>>, workloadNames(fs, copilotDir, match))

DoListDockerfiles == Step("ListDockerfiles", <<>>, ListDockerfiles(fs, copilotDir))

----------------------------------------------------------------------------
(* Two processes that write manifests.  Each process has its own Workspace *)
(* and runs WriteServiceManifest for the entities of RaceNames in turn;    *)
(* the file system is shared.  A step is one call of write() to the file   *)
(* system: the processes interleave between the calls of lines 397-416.    *)

Procs == {1, 2}

RaceNames == <<"api", "db">>

\* The manifest a process marshals.
RaceData(i) == IF i = 1 THEN <<"type", "Backend Service">> ELSE <<"type", "Scheduled Job">>

Pending == Err("pending", NoPath, "")

\* A process before its first call: dir is its ws.copilotDir, todo the
\* entities it has still to write, errs what its calls returned.
RaceStart ==
    [pc |-> "resolve", dir |-> NoPath, todo |-> RaceNames, filename |-> NoPath,
     errs |-> [n \in Range(RaceNames) |-> Pending]]

\* The call of write() returns err: the next entity, or the end.
raceReturn(t, err) ==
    [t EXCEPT !.errs[Head(t.todo)] = err,
              !.todo = Tail(t.todo),
              !.pc = IF Tail(t.todo) = <<>> THEN "done" ELSE "resolve"]

RaceKeep ==
    UNCHANGED <<wdBase, rootDepth, copilotDir, call, created, deleted, written, missed>>

\* Lines 397-402: CopilotDirPath and the file name.
RaceResolve(i) ==
    /\ tasks[i].pc = "resolve"
    /\ LET copilotPath == CopilotDirPath(fs, tasks[i].dir)
           t == [tasks[i] EXCEPT !.dir = copilotPath.dir] IN
       tasks' = [tasks EXCEPT ![i] =
                    IF copilotPath.err # Nil THEN raceReturn(t, copilotPath.err)
                    ELSE [t EXCEPT !.pc = "mkdir",
                                   !.filename = JoinAll(copilotPath.val,
                                                        <<Head(t.todo), manifestFileName>>)]]
    /\ UNCHANGED fs
    /\ RaceKeep

\* Lines 404-406: MkdirAll
RaceMkdirAll(i) ==
    /\ tasks[i].pc = "mkdir"
    /\ LET mk == MkdirAll(fs, Dir(tasks[i].filename)) IN
       /\ fs' = mk.fs
       /\ tasks' = [tasks EXCEPT ![i] =
                       IF mk.err # Nil THEN raceReturn(@, Wrap("create directories", mk.err))
                       ELSE [@ EXCEPT !.pc = "exists"]]
    /\ RaceKeep

\* The check that lets every caller through.
existCheckSkipped(f, filename) == [pc |-> "write", err |-> Nil]

\* Lines 407-413: the existence check and what it decides.
existCheck(f, filename) ==
    LET exist == Exists(f, filename) IN
    IF exist.err # Nil
    THEN [pc |-> "return", err |-> Wrap("check if manifest file exists", exist.err)]
    ELSE IF exist.ok THEN [pc |-> "return", err |-> Err("ErrFileExists", filename, "")]
    ELSE [pc |-> "write", err |-> Nil]

RaceExists(i) ==
    /\ tasks[i].pc = "exists"
    /\ LET chk == existCheck(fs, tasks[i].filename) IN
       tasks' = [tasks EXCEPT ![i] =
                    IF chk.pc = "return" THEN raceReturn(@, chk.err)
                    ELSE [@ EXCEPT !.pc = "write"]]
    /\ UNCHANGED fs
    /\ RaceKeep

\* Lines 414-417: WriteFile
RaceWriteFile(i) ==
    /\ tasks[i].pc = "write"
    /\ LET w == WriteFile(fs, tasks[i].filename, RaceData(i)) IN
       /\ fs' = w.fs
       /\ tasks' = [tasks EXCEPT ![i] =
                       IF w.err # Nil THEN raceReturn(@, Wrap("write manifest file", w.err))
                       ELSE raceReturn(@, Nil)]
    /\ RaceKeep

----------------------------------------------------------------------------
(* Two processes that call Create.  Each process has its own Workspace and *)
(* its own project name; the file system is shared.  A step is one call of *)
(* Create to the file system, and WriteFile is two: the open that creates  *)
(* or truncates the file, and the write of the bytes.                      *)

\* The project a process creates.
CreateApp(i) == IF i = 1 THEN "acme" ELSE "globex"

\* A process before its call: dir is its ws.copilotDir, found whether
\* createCopilotDir found a copilot directory, sp the summary path.
CreateStart ==
    [pc |-> "dir", dir |-> NoPath, found |-> FALSE, sp |-> NoPath, err |-> Pending]

createReturn(t, err) == [t EXCEPT !.pc = "done", !.err = err]

\* Line 346: the CopilotDirPath of createCopilotDir, its error dropped.
CrCopilotDir(i) ==
    /\ tasks[i].pc = "dir"
    /\ LET existingWorkspace == CopilotDirPath(fs, tasks[i].dir) IN
       tasks' = [tasks EXCEPT ![i] =
                    IF existingWorkspace.val # NoPath
                    THEN [@ EXCEPT !.pc = "exists", !.found = TRUE,
                                   !.dir = existingWorkspace.dir]
                    ELSE [@ EXCEPT !.pc = "mkdir"]]
    /\ UNCHANGED fs
    /\ RaceKeep

\* Line 350: Mkdir
CrMkdir(i) ==
    /\ tasks[i].pc = "mkdir"
    /\ LET m == Mkdir(fs, Join(workingDir, CopilotDirName)) IN
       /\ fs' = m.fs
       /\ tasks' = [tasks EXCEPT ![i] =
                       IF m.err # Nil THEN createReturn(@, m.err)
                       ELSE [@ EXCEPT !.pc = "exists"]]
    /\ RaceKeep

\* Lines 105-110: summaryPath and the existence check of Summary, its
\* error dropped.  Without the file Summary returns
\* errNoAssociatedApplication and Create goes on to writeSummary.
CrExists(i) ==
    /\ tasks[i].pc = "exists"
    /\ LET sp == summaryPath(fs, tasks[i].dir)
           t == [tasks[i] EXCEPT !.dir = sp.dir, !.sp = sp.val] IN
       tasks' = [tasks EXCEPT ![i] =
                    IF sp.err # Nil THEN createReturn(t, sp.err)
                    ELSE IF Exists(fs, sp.val).ok THEN [t EXCEPT !.pc = "read"]
                    ELSE [t EXCEPT !.pc = "truncate"]]
    /\ UNCHANGED fs
    /\ RaceKeep

\* Lines 111-117 and 86-92: ReadFile, the decoding and the comparison.
CrReadFile(i) ==
    /\ tasks[i].pc = "read"
    /\ LET value == ReadFile(fs, tasks[i].sp)
           wsSummary == Unmarshal(value.data, "application") IN
       tasks' = [tasks EXCEPT ![i] =
                    IF value.err # Nil THEN createReturn(@, value.err)
                    ELSE IF wsSummary.err # "nil"
                    THEN createReturn(@, Errno(wsSummary.err, NoPath))
                    ELSE IF wsSummary.val # CreateApp(i)
                    THEN createReturn(@, Err("errHasExistingApplication", NoPath,
                                             wsSummary.val))
                    ELSE createReturn(@, Nil)]
    /\ UNCHANGED fs
    /\ RaceKeep

\* Line 323, WriteFile: the open with O_CREATE|O_TRUNC leaves an empty file.
CrOpenTruncate(i) ==
    /\ tasks[i].pc = "truncate"
    /\ LET w == WriteFile(fs, tasks[i].sp, EmptyBytes) IN
       /\ fs' = w.fs
       /\ tasks' = [tasks EXCEPT ![i] =
                       IF w.err # Nil THEN createReturn(@, w.err)
                       ELSE [@ EXCEPT !.pc = "write"]]
    /\ RaceKeep

\* Line 323, WriteFile: the write of the summary to the open file.
CrWrite(i) ==
    /\ tasks[i].pc = "write"
    /\ fs' = Put(fs, tasks[i].sp, FileNode(MarshalSummary(CreateApp(i))))
    /\ tasks' = [tasks EXCEPT ![i] = createReturn(@, Nil)]
    /\ RaceKeep

----------------------------------------------------------------------------
(* Goroutines that call CopilotDirPath on one Workspace.  ws.copilotDir is *)
(* read and written without synchronisation.  A Go string is two words, a  *)
(* data pointer and a length, and a store of it is two stores in an order  *)
(* the build chooses, so a load between them may see one word of each.     *)

Goroutines == {1, 2, 3}

\* The string of the new length and the nil data pointer of "": it is not
\* empty, and it is no path of the file system.
TornString == <<-1, "torn">>

GoStart == [pc |-> "check", seen |-> NoPath, path |-> NoPath, err |-> Pending, val |-> NoPath]

GoKeep == UNCHANGED <<wdBase, rootDepth, fs, call, created, deleted, written, missed>>

\* The values of ws.copilotDir after the first of the two stores of path:
\* the pointer is stored first and the length is still the old one, or the
\* length first and the pointer is still the old one.
halfStored(old, path) ==
    IF old = NoPath THEN {NoPath, TornString}
    ELSE IF old = TornString THEN {path, TornString}
    ELSE {old}

\* Line 355: ws.copilotDir != ""
GoCheck(i) ==
    /\ tasks[i].pc = "check"
    /\ tasks' = [tasks EXCEPT ![i] =
                    [@ EXCEPT !.seen = copilotDir,
                              !.pc = IF copilotDir # NoPath THEN "cached" ELSE "search"]]
    /\ UNCHANGED copilotDir
    /\ GoKeep

\* Line 356: return ws.copilotDir, loaded again or kept from line 355.
GoReturnCached(i) ==
    /\ tasks[i].pc = "cached"
    /\ \E v \in {tasks[i].seen, copilotDir} :
           tasks' = [tasks EXCEPT ![i] = [@ EXCEPT !.pc = "done", !.err = Nil, !.val = v]]
    /\ UNCHANGED copilotDir
    /\ GoKeep

\* Lines 359-372 and 376-382: the test of the working directory's name
\* and the search, up to the store of the path found.
GoSearch(i) ==
    /\ tasks[i].pc = "search"
    /\ LET r == IF wdBase = CopilotDirName THEN Found(workingDir)
                ELSE searchParents(fs, workingDir, 0) IN
       tasks' = [tasks EXCEPT ![i] =
                    IF r.err # Nil THEN [@ EXCEPT !.pc = "done", !.err = r.err]
                    ELSE [@ EXCEPT !.pc = "store", !.path = r.val]]
    /\ UNCHANGED copilotDir
    /\ GoKeep

\* Lines 361 and 373, first word of ws.copilotDir = path
GoStoreFirstWord(i) ==
    /\ tasks[i].pc = "store"
    /\ copilotDir' \in halfStored(copilotDir, tasks[i].path)
    /\ tasks' = [tasks EXCEPT ![i] = [@ EXCEPT !.pc = "stored"]]
    /\ GoKeep

\* Lines 361 and 373, second word
GoStoreSecondWord(i) ==
    /\ tasks[i].pc = "stored"
    /\ copilotDir' = tasks[i].path
    /\ tasks' = [tasks EXCEPT ![i] = [@ EXCEPT !.pc = "return"]]
    /\ GoKeep

\* Lines 362 and 374: return ws.copilotDir, loaded again or kept.
GoReturnStored(i) ==
    /\ tasks[i].pc = "return"
    /\ \E v \in {tasks[i].path, copilotDir} :
           tasks' = [tasks EXCEPT ![i] = [@ EXCEPT !.pc = "done", !.err = Nil, !.val = v]]
    /\ UNCHANGED copilotDir
    /\ GoKeep

----------------------------------------------------------------------------
(* The environment: other programs change the file system between calls   *)

Below(f, p) == {q \in DOMAIN f : IsPrefix(p, q)}

\* mkdir <k-th ancestor>/copilot, for a k of levels
EnvMkdirIn(levels) ==
    \E k \in levels :
        LET m == Mkdir(fs, Join(<<k>>, CopilotDirName)) IN
        /\ m.err = Nil
        /\ fs' = m.fs
        /\ call' = [op |-> "mkdir", args |-> <<k>>, err |-> Nil, val |-> <<>>]
        /\ UNCHANGED <<copilotDir, created, deleted, written, missed>>
        /\ Keep

EnvMkdir == EnvMkdirIn(0..rootDepth)

\* mkdir copilot in the working directory or in its parent
EnvMkdirNear == EnvMkdirIn({0, 1})

\* rm -r <k-th ancestor>/copilot
EnvRemoveAll ==
    \E k \in 0..rootDepth :
        LET p == Join(<<k>>, CopilotDirName) IN
        /\ p \in DOMAIN fs
        /\ fs' = [q \in DOMAIN fs \ Below(fs, p) |-> fs[q]]
        /\ call' = [op |-> "rm", args |-> <<k>>, err |-> Nil, val |-> <<>>]
        /\ UNCHANGED <<copilotDir, created, deleted, written, missed>>
        /\ Keep

----------------------------------------------------------------------------
(* Initial states *)

NoCall == [op |-> "New", args |-> <<>>, err |-> Nil, val |-> <<>>]

\* A file system from a set of (path, node) pairs.
Tree(pairs) == [p \in {x[1] : x \in pairs} |-> (CHOOSE x \in pairs : x[1] = p)[2]]

\* No call has been made on the instance.
Idle ==
    /\ copilotDir = NoPath
    /\ call = NoCall
    /\ created = {}
    /\ deleted = FALSE
    /\ written = <<>>
    /\ missed = FALSE

\* Nothing runs concurrently.
NoTasks == <<>>

Fresh == Idle /\ tasks = NoTasks

\* The locator: any working directory depth and name, and copilot
\* directories under any set of its ancestors.
InitLocate ==
    /\ rootDepth \in 0..MaxDepth
    /\ wdBase \in {CopilotDirName, OtherBase}
    /\ wdBase = CopilotDirName => rootDepth >= 1
    /\ \E levels \in SUBSET (0..rootDepth) :
           fs = Tree({<<Join(<<k>>, CopilotDirName), DirNode>> : k \in levels})
    /\ Fresh

NextLocate == DoCopilotDirPath \/ EnvMkdir \/ EnvRemoveAll

SpecLocate == InitLocate /\ [][NextLocate]_vars

\* What may be at a copilot directory path p before the program runs:
\* nothing, an empty directory, or a directory with a summary file.
MarkerTrees(p) ==
    {{}, {<<p, DirNode>>}}
    \cup {{<<p, DirNode>>, <<Join(p, SummaryFileName), FileNode(MarshalSummary(a))>>} :
              a \in ExistingApps}

\* The summary file of a directory p that exists: absent, or of a project.
SummaryTrees(p) ==
    {{}} \cup {{<<Join(p, SummaryFileName), FileNode(MarshalSummary(a))>>} : a \in ExistingApps}

\* The store: a working directory with a copilot directory in it, two
\* levels above it, in both or in neither; or a working directory that is
\* itself named copilot and may hold a directory named copilot.
InitStore ==
    /\ rootDepth = MaxDepth
    /\ \/ /\ wdBase = OtherBase
          /\ \E t0 \in MarkerTrees(<<0, CopilotDirName>>),
                t2 \in MarkerTrees(<<2, CopilotDirName>>) : fs = Tree(t0 \cup t2)
       \/ /\ wdBase = CopilotDirName
          /\ \E s \in SummaryTrees(workingDir),
                t0 \in MarkerTrees(<<0, CopilotDirName>>) : fs = Tree(s \cup t0)
    /\ Fresh

NextStore ==
    \/ DoCopilotDirPath
    \/ DoCreate
    \/ DoSummary
    \/ DoDeleteWorkspaceFile
    \/ DoWriteServiceManifest
    \/ DoWriteJobManifest
    \/ DoWritePipelineBuildspec
    \/ DoWritePipelineManifest
    \/ DoWriteAddon
    \/ DoReadServiceManifest

Spec == InitStore /\ [][NextStore]_vars

\* What may be at the entry named n of the copilot directory m before the
\* program runs: nothing; a plain file; a directory without a manifest; a
\* directory with a manifest that declares a type, declares none, or does
\* not decode; a directory that may not be searched (mode 0600), so that
\* the manifest in it cannot be stat'ed; a manifest that may not be read
\* (mode 0000).
EntryTrees(m, n) ==
    LET d == Join(m, n)
        mf == Join(d, manifestFileName) IN
    {{}, {<<d, FileNode(EmptyBytes)>>}, {<<d, DirNode>>}}
    \cup {{<<d, DirNode>>, <<mf, FileNode(b)>>} :
              b \in ManifestBytes \cup {<<"name", n>>, CorruptBytes}}
    \cup {{<<d, [DirNode EXCEPT !.mode = "denied"]>>, <<mf, FileNode(b)>>} :
              b \in {<<"type", "Backend Service">>}}
    \cup {{<<d, DirNode>>, <<mf, [FileNode(b) EXCEPT !.mode = "denied"]>>} :
              b \in {<<"type", "Backend Service">>}}

\* The files every enumerated copilot directory holds beside its entries.
PlainFiles(m) ==
    {<<Join(m, SummaryFileName), FileNode(MarshalSummary("acme"))>>,
     <<Join(m, pipelineFileName), FileNode(EmptyBytes)>>}

\* The enumeration: a copilot directory, the working directory itself or
\* its child, with any combination of entries.
InitEnum ==
    /\ rootDepth = MaxDepth
    /\ wdBase \in {CopilotDirName, OtherBase}
    /\ LET m == IF wdBase = CopilotDirName THEN workingDir
                ELSE Join(workingDir, CopilotDirName) IN
       \E t1 \in EntryTrees(m, "api"), t2 \in EntryTrees(m, "db"),
          t3 \in EntryTrees(m, "policy") :
           fs = Tree(PlainFiles(m) \cup t1 \cup t2 \cup t3
                     \cup (IF Len(m) > 1 THEN {<<m, DirNode>>} ELSE {}))
    /\ Fresh

NextEnum == DoWorkloadNames

SpecEnum == InitEnum /\ [][NextEnum]_vars

\* The nodes a summary file path may hold before the program runs: a
\* summary, bytes that do not decode, an empty file, a summary that may
\* not be read (mode 0000), or a directory.
SummaryNodes ==
    {FileNode(MarshalSummary(a)) : a \in ExistingApps}
    \cup {FileNode(CorruptBytes), FileNode(EmptyBytes),
          [FileNode(MarshalSummary("acme")) EXCEPT !.mode = "denied"], DirNode}

\* What may be at the path p of a copilot directory in the working
\* directory: nothing, a regular file, or a directory, searchable or not
\* (mode 0600), with any summary or none.
FaultTrees(p) ==
    {{}, {<<p, FileNode(EmptyBytes)>>}}
    \cup {{<<p, d>>} \cup s :
              d \in {DirNode, [DirNode EXCEPT !.mode = "denied"]},
              s \in {{}} \cup {{<<Join(p, SummaryFileName), n>>} : n \in SummaryNodes}}

\* The summary under faults: a working directory with anything of
\* FaultTrees as its copilot, a copilot directory in its parent and one
\* beyond the levels searched; or a working directory named copilot.
InitSummary ==
    /\ rootDepth = MaxDepth
    /\ \/ /\ wdBase = OtherBase
          /\ \E t0 \in FaultTrees(<<0, CopilotDirName>>),
                t1 \in MarkerTrees(<<1, CopilotDirName>>),
                t5 \in {{}, {<<Join(<<maximumParentDirsToSearch>>, CopilotDirName), DirNode>>}} :
                 fs = Tree(t0 \cup t1 \cup t5)
       \/ /\ wdBase = CopilotDirName
          /\ \E s \in {{}} \cup {{<<Join(workingDir, SummaryFileName), n>>} : n \in SummaryNodes},
                t0 \in {{}, {<<Join(workingDir, CopilotDirName), DirNode>>}} :
                 fs = Tree(s \cup t0)
    /\ Fresh

NextSummary ==
    \/ DoCopilotDirPath
    \/ DoCreate
    \/ DoSummary
    \/ EnvMkdirNear

SpecSummary == InitSummary /\ [][NextSummary]_vars

\* What may be at the entry n of the working directory: nothing; a plain
\* file; a directory that is empty, holds a Dockerfile, holds a directory
\* named Dockerfile, or holds a Dockerfile one level further down; a
\* directory that holds a Dockerfile and may not be read (mode 0000).
SourceTrees(n) ==
    LET d == Join(workingDir, n) IN
    {{}, {<<d, FileNode(EmptyBytes)>>}, {<<d, DirNode>>},
     {<<d, DirNode>>, <<Join(d, dockerfileName), FileNode(EmptyBytes)>>},
     {<<d, DirNode>>, <<Join(d, dockerfileName), DirNode>>},
     {<<d, DirNode>>, <<Join(d, "db"), DirNode>>,
      <<Join(Join(d, "db"), dockerfileName), FileNode(EmptyBytes)>>},
     {<<d, [DirNode EXCEPT !.mode = "denied"]>>,
      <<Join(d, dockerfileName), FileNode(EmptyBytes)>>}}

\* The listing: a working directory with any combination of sources and
\* with a Dockerfile, a directory of that name holding one, or neither.
InitDocker ==
    /\ rootDepth = MaxDepth
    /\ wdBase \in {CopilotDirName, OtherBase}
    /\ \E t1 \in SourceTrees("App"), t2 \in SourceTrees("api"), t3 \in SourceTrees("db"),
          t0 \in {{}, {<<Join(workingDir, dockerfileName), FileNode(EmptyBytes)>>},
                  {<<Join(workingDir, dockerfileName), DirNode>>,
                   <<Join(Join(workingDir, dockerfileName), dockerfileName),
                     FileNode(EmptyBytes)>>}} :
           fs = Tree(t0 \cup t1 \cup t2 \cup t3)
    /\ Fresh

NextDocker == DoListDockerfiles

SpecDocker == InitDocker /\ [][NextDocker]_vars

\* What may be at the entity api of the copilot directory m before the
\* program runs: nothing, a plain file, a directory with an empty addons
\* directory, or one whose addons directory holds policy.yml already.
AddonTrees(m) ==
    LET d == Join(m, "api")
        a == Join(d, addonsDirName) IN
    {{}, {<<d, FileNode(EmptyBytes)>>}, {<<d, DirNode>>, <<a, DirNode>>},
     {<<d, DirNode>>, <<a, DirNode>>,
      <<Join(a, "policy.yml"), FileNode(<<"Resources", "queue">>)>>}}

\* The addons: no copilot directory, or one in the working directory, in
\* its parent, or the working directory itself.
InitAddons ==
    /\ rootDepth = MaxDepth
    /\ \/ /\ wdBase = OtherBase
          /\ \/ fs = Tree({})
             \/ \E k \in {0, 1} : \E t \in AddonTrees(<<k, CopilotDirName>>) :
                    fs = Tree({<<(<<k, CopilotDirName>>), DirNode>>} \cup t)
       \/ /\ wdBase = CopilotDirName
          /\ \E t \in AddonTrees(workingDir) : fs = Tree(t)
    /\ Fresh

NextAddons ==
    \/ DoWriteAnyAddon
    \/ DoReadAddon
    \/ DoReadAddonsDir

SpecAddons == InitAddons /\ [][NextAddons]_vars

\* The race: a copilot directory in the working directory or its parent,
\* or the working directory itself, with the directory of api there or
\* not, and no manifest.
InitRace ==
    /\ rootDepth = MaxDepth
    /\ \E t \in {{}, {<<"api", DirNode>>}} :
           \/ /\ wdBase = OtherBase
              /\ \E k \in {0, 1} :
                     fs = Tree({<<(<<k, CopilotDirName>>), DirNode>>}
                               \cup {<<(<<k, CopilotDirName>>) \o <<x[1]>>, x[2]>> : x \in t})
           \/ /\ wdBase = CopilotDirName
              /\ fs = Tree({<<workingDir \o <<x[1]>>, x[2]>> : x \in t})
    /\ Idle
    /\ tasks = [i \in Procs |-> RaceStart]

NextRace ==
    \E i \in Procs :
        \/ RaceResolve(i)
        \/ RaceMkdirAll(i)
        \/ RaceExists(i)
        \/ RaceWriteFile(i)

SpecRace == InitRace /\ [][NextRace]_vars

\* The goroutines: a working directory of either name, and copilot
\* directories in the working directory, two levels up and beyond the
\* levels searched, in any combination.  The file system does not change.
InitGo ==
    /\ rootDepth = MaxDepth
    /\ wdBase \in {CopilotDirName, OtherBase}
    /\ \E levels \in SUBSET {0, 2, maximumParentDirsToSearch} :
           fs = Tree({<<Join(<<k>>, CopilotDirName), DirNode>> : k \in levels})
    /\ Idle
    /\ tasks = [i \in Goroutines |-> GoStart]

NextGo ==
    \E i \in Goroutines :
        \/ GoCheck(i)
        \/ GoReturnCached(i)
        \/ GoSearch(i)
        \/ GoStoreFirstWord(i)
        \/ GoStoreSecondWord(i)
        \/ GoReturnStored(i)

SpecGo == InitGo /\ [][NextGo]_vars

\* Depths of the working directories of InitOps: "/" itself, a directory
\* two levels down, and the deepest.
OpsDepths == {0, 2, MaxDepth}

\* Every method that resolves the copilot directory, Create apart: a
\* working directory at any of OpsDepths that is not named copilot, with
\* copilot directories four levels up, five levels up, both or neither,
\* and with a plain file named copilot or none.
InitOps ==
    /\ rootDepth \in OpsDepths
    /\ wdBase = OtherBase
    /\ \E levels \in SUBSET {k \in {maximumParentDirsToSearch - 1, maximumParentDirsToSearch} :
                             k <= rootDepth},
          t0 \in {{}, {<<Join(workingDir, CopilotDirName), FileNode(EmptyBytes)>>}} :
           fs = Tree(t0 \cup {<<Join(<<k>>, CopilotDirName), DirNode>> : k \in levels})
    /\ Fresh

NextOps ==
    \/ DoCopilotDirPath
    \/ DoSummary
    \/ DoReadServiceManifest
    \/ DoReadJobManifest
    \/ DoReadAddon
    \/ DoReadAddonsDir
    \/ DoWriteServiceManifest
    \/ DoWriteJobManifest
    \/ DoWritePipelineBuildspec
    \/ DoWritePipelineManifest
    \/ DoWriteAddon
    \/ DoWorkloadNames

SpecOps == InitOps /\ [][NextOps]_vars

\* Two Creates: no copilot directory, or one without a summary in the
\* working directory or its parent, or the working directory itself.
InitCreateRace ==
    /\ rootDepth = MaxDepth
    /\ \/ /\ wdBase = OtherBase
          /\ \/ fs = Tree({})
             \/ \E k \in {0, 1} : fs = Tree({<<(<<k, CopilotDirName>>), DirNode>>})
       \/ /\ wdBase = CopilotDirName
          /\ fs = Tree({})
    /\ Idle
    /\ tasks = [i \in Procs |-> CreateStart]

NextCreateRace ==
    \E i \in Procs :
        \/ CrCopilotDir(i)
        \/ CrMkdir(i)
        \/ CrExists(i)
        \/ CrReadFile(i)
        \/ CrOpenTruncate(i)
        \/ CrWrite(i)

SpecCreateRace == InitCreateRace /\ [][NextCreateRace]_vars

----------------------------------------------------------------------------
(* Properties of the store, under Spec *)

\* The path elements below the copilot directory a Write* call targets,
\* from the layout the package documents (workspace.go:7-14, 286).
TargetElems(op, args) ==
    CASE op \in {"WriteServiceManifest", "WriteJobManifest"} -> <<args[2], "manifest.yml">>
      [] op = "WritePipelineBuildspec" -> <<"buildspec.yml">>
      [] op = "WritePipelineManifest" -> <<"pipeline.yml">>
      [] op = "WriteAddon" ->
            <<args[2], "addons", IF args[3] = "policy" THEN "policy.yml" ELSE "?">>

SummaryFiles == {p \in DOMAIN fs : p[Len(p)] = ".workspace"}

C1Step ==
    /\ \A p \in DOMAIN written' :
           p \in DOMAIN fs' /\ fs'[p].kind = "file" /\ fs'[p].data = written'[p]
    /\ (call'.op \in WriteOps /\ call'.args[1].err = Nil) =>
           LET cp == CopilotDirPath(fs, copilotDir) IN
           cp.err = Nil =>
               LET t == JoinAll(cp.val, TargetElems(call'.op, call'.args)) IN
               t \in DOMAIN fs =>
                   /\ call'.err = Err("ErrFileExists", t, "")
                   /\ fs' = fs
    /\ (call'.op = "ReadServiceManifest" /\ copilotDir' # NoPath) =>
           LET t == JoinAll(copilotDir', <<call'.args[1], "manifest.yml">>) IN
           t \in DOMAIN written' => call'.err = Nil /\ call'.val = written'[t]

\* C1: a write through write() whose target already exists fails with
\* ErrFileExists carrying the target's path and changes nothing; every file
\* written keeps the bytes of the first successful write to it; and
\* ReadServiceManifest returns those bytes.
C1_NoOverwrite == [][C1Step]_vars

\* A WriteJobManifest with other bytes has just failed on a manifest that a
\* earlier write created, and the manifest still holds the first bytes.
C1_Witness ==
    /\ call.op = "WriteJobManifest"
    /\ call.err.kind = "ErrFileExists"
    /\ call.err.path \in DOMAIN written
    /\ written[call.err.path] # call.args[1].data
    /\ fs[call.err.path].data = written[call.err.path]

\* C2: a Create(q) right after a successful Create(p), q # p, fails with
\* errHasExistingApplication naming p, changes no file, and Summary still
\* returns p.
C2_SecondProjectRejected ==
    [][(/\ call.op = "Create" /\ call.err = Nil
        /\ call'.op = "Create" /\ call'.args # call.args)
       => /\ call'.err = Err("errHasExistingApplication", NoPath, call.args[1])
          /\ fs' = fs
          /\ Summary(fs', copilotDir').err = Nil
          /\ Summary(fs', copilotDir').val = call.args]_vars

\* Create(q) has just been refused in favour of a project that an earlier
\* Create of this instance succeeded with.
C2_Witness ==
    /\ call.op = "Create"
    /\ call.err.kind = "errHasExistingApplication"
    /\ call.err.name \in created
    /\ call.err.name # call.args[1]
    /\ ~deleted

C7_DeleteRemovesResolvedSummary ==
    [][(/\ call'.op = "DeleteWorkspaceFile" /\ call'.err = Nil
        /\ CopilotDirPath(fs, copilotDir).err = Nil)
       => /\ Summary(fs', copilotDir').err.kind = "errNoAssociatedApplication"
          /\ \A p \in DOMAIN fs \ SummaryFiles : p \in DOMAIN fs' /\ fs'[p] = fs[p]
          /\ DOMAIN fs' \subseteq DOMAIN fs]_vars

----------------------------------------------------------------------------
(* Properties of the locator, under SpecLocate *)

\* The working directory is not named copilot and the only copilot
\* directory is the child of its d-th ancestor.
OnlyMarkerAt(d) ==
    /\ wdBase # CopilotDirName
    /\ DOMAIN fs = {<<d, "copilot">>}
    /\ fs[<<d, "copilot">>].kind = "dir"

\* C5 as claimed: a search (the cache is empty) finds the only copilot
\* directory for d in 0..5 and fails with errWorkspaceNotFound for d = 6.
C5_Original ==
    [][\A d \in 0..6 :
          (call'.op = "CopilotDirPath" /\ copilotDir = NoPath /\ OnlyMarkerAt(d))
          => IF d <= 5
             THEN call'.err = Nil /\ call'.val = <<d, "copilot">>
             ELSE call'.err.kind = "errWorkspaceNotFound"]_vars

\* C5, amended: the search finds the only copilot directory for d in 0..4
\* and fails with errWorkspaceNotFound for every d >= 5.
C5_FiveLevels ==
    [][\A d \in 0..MaxDepth :
          (call'.op = "CopilotDirPath" /\ copilotDir = NoPath /\ OnlyMarkerAt(d))
          => IF d <= 4
             THEN /\ call'.err = Nil
                  /\ call'.val = <<d, "copilot">>
                  /\ copilotDir' = <<d, "copilot">>
             ELSE /\ call'.err = Err("errWorkspaceNotFound", <<0>>, "copilot")
                  /\ call'.val = NoPath
                  /\ copilotDir' = NoPath]_vars

\* CopilotDirPath has just found the only copilot directory, four levels up.
C5_Witness ==
    /\ call.op = "CopilotDirPath"
    /\ OnlyMarkerAt(4)
    /\ call.err = Nil
    /\ call.val = <<4, "copilot">>

\* C6: once the cache holds a path it never changes, whatever is removed
\* or created, and every CopilotDirPath call returns it.
C6_CacheWriteOnce ==
    [][copilotDir # NoPath
       => /\ copilotDir' = copilotDir
          /\ call'.op = "CopilotDirPath"
             => call'.err = Nil /\ call'.val = copilotDir]_vars

\* CopilotDirPath has just returned the cached path although that
\* directory is gone and a copilot directory nearer to the working
\* directory exists.
C6_Witness ==
    /\ call.op = "CopilotDirPath"
    /\ call.err = Nil
    /\ call.val = copilotDir
    /\ copilotDir = <<2, "copilot">>
    /\ copilotDir \notin DOMAIN fs
    /\ <<0, "copilot">> \in DOMAIN fs

\* The levels, of those searched, at which a copilot directory exists.
MarkerLevels ==
    {d \in 0..4 : d <= rootDepth /\ <<d, "copilot">> \in DOMAIN fs
                  /\ fs[<<d, "copilot">>].kind = "dir"}

\* C19: a search (the cache is empty) from a working directory named
\* copilot returns the working directory whatever lies above or below it;
\* from any other working directory it returns the copilot directory the
\* fewest levels up of those within the levels searched.
C19_NearestMarker ==
    [][(call'.op = "CopilotDirPath" /\ copilotDir = NoPath)
       => IF wdBase = "copilot"
          THEN call'.err = Nil /\ call'.val = <<0>> /\ copilotDir' = <<0>>
          ELSE MarkerLevels # {}
               => /\ call'.err = Nil
                  /\ \E d \in MarkerLevels :
                         /\ \A e \in MarkerLevels : d <= e
                         /\ call'.val = <<d, "copilot">>
                         /\ copilotDir' = <<d, "copilot">>]_vars

\* CopilotDirPath has just returned the copilot directory one level up,
\* with others three and four levels up and none in the working directory.
C19_Witness ==
    /\ call.op = "CopilotDirPath"
    /\ wdBase # "copilot"
    /\ DOMAIN fs = {<<1, "copilot">>, <<3, "copilot">>, <<4, "copilot">>}
    /\ call.err = Nil
    /\ call.val = <<1, "copilot">>

----------------------------------------------------------------------------
(* Properties of the enumeration, under SpecEnum *)

\* The copilot directory of SpecEnum.
Marker == IF wdBase = CopilotDirName THEN <<0>> ELSE <<0, "copilot">>

ManifestOf(n) == Marker \o <<n, "manifest.yml">>

\* n is a subdirectory of the copilot directory that holds a manifest.yml.
HasManifest(n) ==
    /\ Marker \o <<n>> \in DOMAIN fs
    /\ fs[Marker \o <<n>>].kind = "dir"
    /\ ManifestOf(n) \in DOMAIN fs

\* The manifest of n can be stat'ed and read.
Readable(n) == fs[Marker \o <<n>>].mode = "ok" /\ fs[ManifestOf(n)].mode = "ok"

Decodable(n) == fs[ManifestOf(n)].data # <<"{">>

\* The "type" field of the manifest of n, "" when it has none.
DeclaredType(n) ==
    LET b == fs[ManifestOf(n)].data IN
    IF Len(b) = 2 /\ b[1] = "type" THEN b[2] ELSE ""

\* C8: when every manifest is readable and decodes, workloadNames returns
\* without error each subdirectory whose manifest's type the predicate
\* accepts, once, and nothing else.
C8_ExactNames ==
    (/\ call.op = "workloadNames"
     /\ \A n \in EntryNames : HasManifest(n) => Readable(n) /\ Decodable(n))
    => LET want == {n \in EntryNames : HasManifest(n) /\ DeclaredType(n) \in call.args[1]} IN
       /\ call.err = Nil
       /\ Range(call.val) = want
       /\ Len(call.val) = Cardinality(want)

\* Of three well-formed workloads workloadNames has just returned the two
\* whose type the predicate accepts, and a plain file lies beside them.
C8_Witness ==
    /\ call.op = "workloadNames"
    /\ \A n \in EntryNames : HasManifest(n) /\ Readable(n) /\ Decodable(n)
    /\ DeclaredType("db") \notin call.args[1]
    /\ call.val = <<"api", "policy">>
    /\ Marker \o <<".workspace">> \in DOMAIN fs

\* C9 as claimed: subdirectories whose manifest is missing or unreadable
\* never make the enumeration fail; when no readable manifest is corrupt
\* the readable workloads are classified and returned.
C9_UnreadableSkipped ==
    (/\ call.op = "workloadNames"
     /\ \A n \in EntryNames : (HasManifest(n) /\ Readable(n)) => Decodable(n))
    => /\ call.err = Nil
       /\ Range(call.val) =
              {n \in EntryNames : /\ HasManifest(n) /\ Readable(n)
                                  /\ DeclaredType(n) \in call.args[1]}

\* C10 as claimed: when some readable manifest does not decode,
\* workloadNames returns the decode error and no names.
C10_DecodeErrorReturned ==
    (/\ call.op = "workloadNames"
     /\ \E n \in EntryNames : HasManifest(n) /\ Readable(n) /\ ~Decodable(n))
    => call.err.kind = "yaml" /\ call.val = <<>>

----------------------------------------------------------------------------
(* Properties of the summary file, under SpecSummary *)

\* C11 as claimed: Summary returns errNoAssociatedApplication exactly when
\* the copilot directory resolves and holds no summary file.
C11_Original ==
    [][call'.op = "Summary"
       => LET cp == CopilotDirPath(fs, copilotDir) IN
          (call'.err.kind = "errNoAssociatedApplication")
          <=> (cp.err = Nil /\ Join(cp.val, ".workspace") \notin DOMAIN fs)]_vars

\* C11, amended: Summary returns errNoAssociatedApplication exactly when
\* the copilot directory resolves and the existence check of the summary
\* file does not find it, because it is absent or because the check itself
\* fails; an error of resolving the directory or of reading a summary file
\* that was found is returned as it is.
C11_AbsentOrCheckFails ==
    [][call'.op = "Summary"
       => LET cp == CopilotDirPath(fs, copilotDir)
              sp == Join(cp.val, ".workspace") IN
          /\ (call'.err.kind = "errNoAssociatedApplication")
             <=> (cp.err = Nil /\ Stat(fs, sp) # "nil")
          /\ cp.err # Nil => call'.err = cp.err
          /\ (cp.err = Nil /\ Stat(fs, sp) = "nil" /\ ReadFile(fs, sp).err # Nil)
             => call'.err = ReadFile(fs, sp).err]_vars

\* Summary has just returned errNoAssociatedApplication although the
\* summary file is there: its directory may not be searched, so the
\* existence check failed.
C11_Witness ==
    /\ call.op = "Summary"
    /\ call.err.kind = "errNoAssociatedApplication"
    /\ copilotDir = <<0, "copilot">>
    /\ <<0, "copilot", ".workspace">> \in DOMAIN fs
    /\ fs[<<0, "copilot">>].mode = "denied"

\* The directories of a file system.
Directories(f) == {p \in DOMAIN f : f[p].kind = "dir"}

\* The summary file at sp names the project appName.
Records(f, sp, appName) ==
    /\ sp \in DOMAIN f
    /\ f[sp] = [kind |-> "file", data |-> <<"application", appName>>, mode |-> "ok"]

\* C16 as claimed: when a copilot directory resolves, Create makes no
\* directory and a successful Create has the summary in the resolved one;
\* when none resolves, Create makes copilot in the working directory and
\* records the summary there; and Create never fails with an
\* already-exists error.
C16_Original ==
    [][call'.op = "Create"
       => LET cp == CopilotDirPath(fs, copilotDir) IN
          /\ cp.err = Nil
             => /\ Directories(fs') = Directories(fs)
                /\ call'.err = Nil
                   => Summary(fs', copilotDir').val = call'.args
                      /\ copilotDir' = cp.val
          /\ cp.err # Nil
             => /\ Directories(fs') = Directories(fs) \cup {<<0, "copilot">>}
                /\ call'.err = Nil
                /\ Records(fs', <<0, "copilot", ".workspace">>, call'.args[1])
          /\ call'.err.kind # "EEXIST"]_vars

\* C16, amended: the same, except that when no copilot directory resolves
\* and the working directory holds an entry named copilot that is not a
\* directory, Create fails with the already-exists error of Mkdir and
\* changes nothing.
C16_CreatesDirWhenUnresolved ==
    [][call'.op = "Create"
       => LET cp == CopilotDirPath(fs, copilotDir) IN
          /\ cp.err = Nil
             => /\ Directories(fs') = Directories(fs)
                /\ call'.err.kind # "EEXIST"
                /\ call'.err = Nil
                   => Summary(fs', copilotDir').val = call'.args
                      /\ copilotDir' = cp.val
          /\ (cp.err # Nil /\ <<0, "copilot">> \notin DOMAIN fs)
             => /\ Directories(fs') = Directories(fs) \cup {<<0, "copilot">>}
                /\ call'.err = Nil
                /\ Records(fs', <<0, "copilot", ".workspace">>, call'.args[1])
          /\ (cp.err # Nil /\ <<0, "copilot">> \in DOMAIN fs)
             => /\ fs[<<0, "copilot">>].kind = "file"
                /\ call'.err = Err("EEXIST", <<0, "copilot">>, "")
                /\ fs' = fs]_vars

\* Create has just made copilot in the working directory and recorded the
\* project there, the only other copilot directory being beyond the
\* levels searched.
C16_Witness ==
    /\ call.op = "Create"
    /\ call.err = Nil
    /\ Directories(fs) = {<<0, "copilot">>, <<5, "copilot">>}
    /\ Records(fs, <<0, "copilot", ".workspace">>, call.args[1])
    /\ copilotDir = <<0, "copilot">>

----------------------------------------------------------------------------
(* Properties of the methods without a copilot directory, under SpecOps *)

\* The d-th directory the search looks into: the d-th ancestor of the
\* working directory, "/" when there are fewer.
Searched(d) == IF d <= rootDepth THEN <<d>> ELSE <<rootDepth>>

\* No copilot directory exists in the five directories searched, and the
\* working directory is not named copilot.
NoMarkerInBound ==
    /\ wdBase # "copilot"
    /\ \A d \in 0..4 : Searched(d) \o <<"copilot">> \notin Directories(fs)

RootOps ==
    {"Summary", "ReadServiceManifest", "ReadJobManifest", "ReadAddon", "ReadAddonsDir",
     "workloadNames"}

\* C18: when no copilot directory exists in the levels searched, Summary,
\* the manifest and addon reads, ReadAddonsDir, workloadNames and every
\* write that got bytes from its marshaler fail with errWorkspaceNotFound,
\* the file system is unchanged and the cache stays empty.
C18_NotFoundChangesNothing ==
    [][(/\ NoMarkerInBound
        /\ copilotDir = NoPath
        /\ \/ call'.op \in RootOps
           \/ call'.op \in WriteOps /\ call'.args[1].err = Nil)
       => /\ call'.err.kind = "errWorkspaceNotFound"
          /\ call'.err.path = <<0>>
          /\ fs' = fs
          /\ copilotDir' = NoPath]_vars

\* WriteAddon has just failed with errWorkspaceNotFound: the only copilot
\* directory is five levels up, and nothing was created.
C18_Witness ==
    /\ call.op = "WriteAddon"
    /\ call.args[1].err = Nil
    /\ call.err.kind = "errWorkspaceNotFound"
    /\ DOMAIN fs = {<<5, "copilot">>}
    /\ copilotDir = NoPath

----------------------------------------------------------------------------
(* Properties of the Dockerfile listing, under SpecDocker *)

\* A regular file named Dockerfile lies directly in the directory p.
HoldsDockerfile(p) ==
    /\ Join(p, "Dockerfile") \in DOMAIN fs
    /\ fs[Join(p, "Dockerfile")].kind = "file"

\* The qualifying directories as they are rendered: "." for the working
\* directory, its name for an immediate sub-directory.
Qualifying ==
    {d \in {"."} : HoldsDockerfile(<<0>>)}
    \cup {n \in Range(NameOrder) :
              /\ <<0, n>> \in DOMAIN fs
              /\ fs[<<0, n>>].kind = "dir"
              /\ HoldsDockerfile(<<0, n>>)}

\* The sub-directories of the working directory that cannot be read.
Unreadable ==
    {n \in Range(NameOrder) :
         /\ <<0, n>> \in DOMAIN fs
         /\ fs[<<0, n>>].kind = "dir"
         /\ fs[<<0, n>>].mode # "ok"}

\* val is the ascending list of "<dir>/Dockerfile" for the directories dirs.
ListsExactly(val, dirs) ==
    /\ Len(val) = Cardinality(dirs)
    /\ \A d \in dirs : \E i \in 1..Len(val) : val[i] = d \o "/Dockerfile"
    /\ \A i, j \in 1..Len(val) :
           i < j => \E d, e \in dirs : /\ val[i] = d \o "/Dockerfile"
                                       /\ val[j] = e \o "/Dockerfile"
                                       /\ Rank(d) < Rank(e)

\* C12 as claimed: ListDockerfiles returns one path per qualifying
\* directory in ascending order of the directories, and fails with
\* ErrDockerfileNotFound exactly when no directory qualifies.
C12_Original ==
    call.op = "ListDockerfiles"
    => IF Qualifying = {}
       THEN call.err.kind = "ErrDockerfileNotFound"
       ELSE call.err = Nil /\ ListsExactly(call.val, Qualifying)

\* C12, amended: the same when every sub-directory of the working
\* directory can be read; when one cannot, ListDockerfiles fails with the
\* error of reading it and returns no path.
C12_ListsWhenReadable ==
    call.op = "ListDockerfiles"
    => IF Unreadable # {}
       THEN /\ call.err.name = "read directory"
            /\ call.err.kind = "EACCES"
            /\ call.err.path \in {<<0, n>> : n \in Unreadable}
            /\ call.val = <<>>
       ELSE IF Qualifying = {}
       THEN call.err = Err("ErrDockerfileNotFound", <<0>>, "") /\ call.val = <<>>
       ELSE call.err = Nil /\ ListsExactly(call.val, Qualifying)

\* ListDockerfiles has just listed the working directory before App,
\* whose entry is read first, and has left out db, whose Dockerfile lies
\* one level too deep.
C12_Witness ==
    /\ call.op = "ListDockerfiles"
    /\ call.val = <<"./Dockerfile", "App/Dockerfile", "api/Dockerfile">>
    /\ <<0, "db", "db", "Dockerfile">> \in DOMAIN fs

----------------------------------------------------------------------------
(* Properties of the addons, under SpecAddons *)

\* The call before this step was a successful WriteAddon(d, s, b).
AddonWritten == call.op = "WriteAddon" /\ call.err = Nil

\* C13: right after a successful WriteAddon(d, s, b), ReadAddon(s, b.yml)
\* returns d, ReadAddonsDir(s) lists b.yml, and a WriteAddon for the same s
\* and b fails with ErrFileExists and changes nothing; and whenever later,
\* ReadAddon returns the bytes of the first successful write of the file.
C13_AddonRoundTrip ==
    [][/\ (/\ AddonWritten /\ call'.op = "ReadAddon"
           /\ call'.args = <<call.args[2], call.args[3] \o ".yml">>)
          => call'.err = Nil /\ call'.val = call.args[1].data
       /\ (/\ AddonWritten /\ call'.op = "ReadAddonsDir"
           /\ call'.args = <<call.args[2]>>)
          => /\ call'.err = Nil
             /\ \E i \in 1..Len(call'.val) : call'.val[i] = call.args[3] \o ".yml"
       /\ (/\ AddonWritten /\ call'.op = "WriteAddon" /\ call'.args[1].err = Nil
           /\ call'.args[2] = call.args[2] /\ call'.args[3] = call.args[3])
          => /\ call'.err = Err("ErrFileExists", call.val, "")
             /\ fs' = fs
             /\ fs'[call.val].data = call.args[1].data
       /\ (call'.op = "WriteAddon" /\ call'.err = Nil)
          => /\ call'.val = copilotDir' \o <<call'.args[2], "addons", call'.args[3] \o ".yml">>
             /\ fs'[call'.val] = [kind |-> "file", data |-> call'.args[1].data, mode |-> "ok"]
       /\ (call'.op = "ReadAddon" /\ copilotDir' # NoPath)
          => LET t == copilotDir' \o <<call'.args[1], "addons", call'.args[2]>> IN
             t \in DOMAIN written' => call'.err = Nil /\ call'.val = written'[t]]_vars

\* ReadAddon has just returned the empty content that the WriteAddon
\* before it wrote for db, beside an addon written for api.
C13_Witness ==
    /\ call.op = "ReadAddon"
    /\ call.args = <<"db", "db.yml">>
    /\ call.err = Nil
    /\ call.val = <<>>
    /\ copilotDir \o <<"db", "addons", "db.yml">> \in DOMAIN written
    /\ copilotDir \o <<"api", "addons", "policy.yml">> \in DOMAIN written

----------------------------------------------------------------------------
(* Properties of two processes writing manifests, under SpecRace *)

\* The manifest of the entity n under the copilot directory of SpecRace.
RaceManifest(n) ==
    (IF wdBase = CopilotDirName THEN <<0>>
     ELSE IF <<0, "copilot">> \in DOMAIN fs THEN <<0, "copilot">>
     ELSE <<1, "copilot">>) \o <<n, "manifest.yml">>

\* Both processes have returned from the write of n.
BothReturned(n) == \A i \in Procs : tasks[i].errs[n] # Pending

\* C14: the check and the write are separate steps.  When both processes
\* have returned from writing the manifest of an entity that did not
\* exist, each call returned success or ErrFileExists and at least one
\* returned success; if both returned success the file holds the data of
\* one of them only (the other write is lost); if one returned
\* ErrFileExists the file holds the data of the other.  A process whose
\* check finds the file gets ErrFileExists and writes nothing.
C14_CheckThenWrite ==
    [][/\ \A n \in Range(RaceNames) :
              BothReturned(n)' =>
                  LET e1 == tasks'[1].errs[n]
                      e2 == tasks'[2].errs[n]
                      dat == fs'[RaceManifest(n)'].data IN
                  /\ {e1, e2} \subseteq {Nil, Err("ErrFileExists", RaceManifest(n)', "")}
                  /\ e1 = Nil \/ e2 = Nil
                  /\ (e1 = Nil /\ e2 = Nil) => dat \in {RaceData(1), RaceData(2)}
                  /\ (e1 = Nil /\ e2 # Nil) => dat = RaceData(1)
                  /\ (e1 # Nil /\ e2 = Nil) => dat = RaceData(2)
       /\ \A i \in Procs :
              (tasks[i].pc = "exists" /\ tasks'[i] # tasks[i]
               /\ tasks[i].filename \in DOMAIN fs)
              => /\ tasks'[i].errs[Head(tasks[i].todo)]
                        = Err("ErrFileExists", tasks[i].filename, "")
                 /\ fs' = fs]_vars

\* Both interleavings have happened: for api both calls returned success
\* and the manifest holds the data of process 2 only, and for db the call
\* of process 1 returned ErrFileExists.
C14_Witness ==
    /\ BothReturned("api") /\ BothReturned("db")
    /\ tasks[1].errs["api"] = Nil /\ tasks[2].errs["api"] = Nil
    /\ fs[RaceManifest("api")].data = RaceData(2)
    /\ tasks[1].errs["db"].kind = "ErrFileExists"
    /\ tasks[2].errs["db"] = Nil
    /\ fs[RaceManifest("db")].data = RaceData(2)

----------------------------------------------------------------------------
(* Properties of concurrent CopilotDirPath calls, under SpecGo *)

GoDone == {i \in Goroutines : tasks[i].pc = "done"}

\* C15 as claimed: the calls that have returned all returned the same
\* path or all errWorkspaceNotFound, and once every call has returned
\* the cache holds that path.
C15_CallsAgree ==
    /\ \A i, j \in GoDone :
           tasks[i].err = tasks[j].err /\ tasks[i].val = tasks[j].val
    /\ \A i \in GoDone :
           \/ tasks[i].err.kind = "errWorkspaceNotFound"
           \/ tasks[i].err = Nil /\ tasks[i].val = CopilotDirPathSearchesAgain(fs, NoPath).val
    /\ GoDone = Goroutines => \A i \in Goroutines : copilotDir = tasks[i].val

----------------------------------------------------------------------------
(* Properties of a search that failed, under SpecSummary *)

\* C20: a CopilotDirPath call that fails with errWorkspaceNotFound leaves
\* the cache empty; a call after such a failure, once a copilot directory
\* exists in the levels searched, returns the nearest one and caches it;
\* and a Create with no copilot directory in the levels searched and no
\* entry copilot in the working directory succeeds, with the summary in
\* the directory it made and that directory in the cache.
C20_FailureNotMemoized ==
    [][/\ (call'.op = "CopilotDirPath" /\ call'.err.kind = "errWorkspaceNotFound")
          => copilotDir' = NoPath /\ missed'
       /\ (/\ missed /\ copilotDir = NoPath /\ MarkerLevels # {}
           /\ call'.op = "CopilotDirPath")
          => /\ call'.err = Nil
             /\ call'.val = copilotDir'
             /\ \E d \in MarkerLevels :
                    /\ \A e \in MarkerLevels : d <= e
                    /\ copilotDir' = <<d, "copilot">>
       /\ (/\ call'.op = "Create" /\ copilotDir = NoPath /\ NoMarkerInBound
           /\ <<0, "copilot">> \notin DOMAIN fs)
          => /\ call'.err = Nil
             /\ copilotDir' = <<0, "copilot">>
             /\ Records(fs', <<0, "copilot", ".workspace">>, call'.args[1])]_vars

\* After a search that failed and a mkdir of copilot in the parent of the
\* working directory, CopilotDirPath has just found that directory and
\* cached it.
C20_Witness ==
    /\ missed
    /\ call.op = "CopilotDirPath"
    /\ call.err = Nil
    /\ copilotDir = <<1, "copilot">>
    /\ <<0, "copilot">> \notin DOMAIN fs

----------------------------------------------------------------------------
(* Properties of two processes calling Create, under SpecCreateRace *)

\* C21 as claimed: when both processes found the copilot directory, it had
\* no summary, and both calls have returned, at most one returned success
\* and the summary names the project of every call that returned success.
C21_AtMostOneCreate ==
    (/\ \A i \in Procs : tasks[i].pc = "done" /\ tasks[i].found)
    => /\ \E i \in Procs : tasks[i].err # Nil
       /\ \A i \in Procs :
              tasks[i].err = Nil
              => Records(fs, tasks[i].sp, IF i = 1 THEN "acme" ELSE "globex")

====
